---- MODULE Spec2Model ----
(***************************************************************************)
(* The Flask gateway of src/src/app.py over a Redis store: the three       *)
(* routes index (GET /), set_value (POST /set) and get_value               *)
(* (GET /get/<key>), with the process-wide client                          *)
(* r = redis.Redis(..., decode_responses=True).                            *)
(*                                                                         *)
(* Text is a sequence of Unicode code points.  The store holds bytes: the  *)
(* client encodes what it is given (UTF-8 for text, decimal digits for     *)
(* integers) and decodes what it reads.  Every POST /set carries           *)
(* Content-Type: application/json.                                         *)
(***************************************************************************)
EXTENDS Integers, Sequences, FiniteSets, TLC

VARIABLES store, req, resp, calls, prior, inflight, fault

vars == <<store, req, resp, calls, prior, inflight, fault>>

\* Most entries the store holds in a run of the model.
MaxKeys == 2

\* Requests that the server's workers serve at the same time.
MaxThreads == 2

-----------------------------------------------------------------------------
(* Python values: None, str, int, bool; and the marker of a field that the *)
(* JSON object of a request does not carry.                                *)

Val(t, s, n) == [t |-> t, s |-> s, n |-> n]

PyNone == Val("none", <<>>, 0)

PyStr(s) == Val("str", s, 0)

PyInt(n) == Val("int", <<>>, n)

PyBool(b) == Val("bool", <<>>, IF b THEN 1 ELSE 0)

Absent == Val("absent", <<>>, 0)

\* "a", "é", "a/b" and the empty text
KeyTexts == {<<>>, <<97>>, <<233>>, <<97, 47, 98>>}

\* "b", "é" and the empty text
ValueTexts == {<<>>, <<98>>, <<233>>}

NonTextFields == {Absent, PyNone, PyInt(0), PyInt(1), PyBool(TRUE)}

KeyFields == {PyStr(s) : s \in KeyTexts} \cup NonTextFields

ValueFields == {PyStr(s) : s \in ValueTexts} \cup NonTextFields

\* What follows /get/ in the path of a GET request; <<49>> is "1".
GetPaths == KeyTexts \cup {<<49>>}

\* The body of a POST /set: a JSON object, text that is not JSON, or JSON
\* that is an array, a string or null.
BodyKinds == {"object", "invalid", "array", "string", "null"}

-----------------------------------------------------------------------------
(* Requests and responses.                                                 *)

Request(op, body, key, value, path) ==
    [op |-> op, body |-> body, key |-> key, value |-> value, path |-> path]

NoRequest == Request("none", "none", Absent, Absent, <<>>)

Response(status, ctype, name, val) ==
    [status |-> status, ctype |-> ctype, name |-> name, val |-> val]

NoResponse == Response(0, "none", <<>>, <<>>)

\* jsonify({name: val}) with the status given beside it
Jsonify(name, val, status) == Response(status, "json", name, val)

\* "Hello from Flask app connected to Redis!"
Greeting ==
    <<72, 101, 108, 108, 111, 32, 102, 114, 111, 109, 32, 70, 108, 97, 115,
      107, 32, 97, 112, 112, 32, 99, 111, 110, 110, 101, 99, 116, 101, 100,
      32, 116, 111, 32, 82, 101, 100, 105, 115, 33>>

\* "message"
MessageName == <<109, 101, 115, 115, 97, 103, 101>>

\* "error"
ErrorName == <<101, 114, 114, 111, 114>>

\* "Both 'key' and 'value' are required."
RequiredText ==
    <<66, 111, 116, 104, 32, 39, 107, 101, 121, 39, 32, 97, 110, 100, 32, 39,
      118, 97, 108, 117, 101, 39, 32, 97, 114, 101, 32, 114, 101, 113, 117,
      105, 114, 101, 100, 46>>

\* "Key not found."
NotFoundText ==
    <<75, 101, 121, 32, 110, 111, 116, 32, 102, 111, 117, 110, 100, 46>>

\* What Flask answers by itself: a body that is not JSON (request.json
\* raises BadRequest), an exception that leaves a handler, a path no route
\* matches.
BadRequest == Response(400, "html", <<>>, <<>>)

InternalServerError == Response(500, "html", <<>>, <<>>)

RouteNotFound == Response(404, "html", <<>>, <<>>)

-----------------------------------------------------------------------------
(* The Redis client: encoding, decoding, set and get.                      *)

\* UTF-8 of one code point below 2048
Utf8Char(c) ==
    IF c < 128 THEN <<c>> ELSE <<192 + (c \div 64), 128 + (c % 64)>>

RECURSIVE Utf8Encode(_)
Utf8Encode(s) ==
    IF s = <<>> THEN <<>> ELSE Utf8Char(Head(s)) \o Utf8Encode(Tail(s))

\* The text of a byte sequence, or ok = FALSE where the bytes are not UTF-8
\* of code points below 2048.
RECURSIVE Utf8Decode(_)
Utf8Decode(b) ==
    IF b = <<>> THEN [ok |-> TRUE, s |-> <<>>]
    ELSE IF b[1] < 128
    THEN LET rest == Utf8Decode(Tail(b))
         IN  [ok |-> rest.ok, s |-> <<b[1]>> \o rest.s]
    ELSE IF b[1] >= 192 /\ b[1] < 224 /\ Len(b) >= 2
              /\ b[2] >= 128 /\ b[2] < 192
    THEN LET rest == Utf8Decode(Tail(Tail(b)))
         IN  [ok |-> rest.ok,
              s |-> <<(b[1] - 192) * 64 + (b[2] - 128)>> \o rest.s]
    ELSE [ok |-> FALSE, s |-> <<>>]

\* The decimal digits of a natural number
RECURSIVE Digits(_)
Digits(n) ==
    IF n < 10 THEN <<48 + n>> ELSE Digits(n \div 10) \o <<48 + (n % 10)>>

\* str(v), as an f-string formats v
Str(v) ==
    CASE v.t = "str" -> v.s
      [] v.t = "int" -> Digits(v.n)
      [] v.t = "bool" -> IF v.n = 1 THEN <<84, 114, 117, 101>>
                         ELSE <<70, 97, 108, 115, 101>>
      [] OTHER -> <<78, 111, 110, 101>>

\* The bytes the client sends for an argument: text as UTF-8, an integer as
\* its digits; it raises DataError for a bool or None.
Encode(v) ==
    CASE v.t = "str" -> [ok |-> TRUE, b |-> Utf8Encode(v.s)]
      [] v.t = "int" -> [ok |-> TRUE, b |-> Digits(v.n)]
      [] OTHER -> [ok |-> FALSE, b |-> <<>>]

\* RedisSet as APPEND: the value is added to the one already stored.
RedisAppend(st, key, value) ==
    LET k == Encode(key)
        v == Encode(value)
    IN  IF k.ok /\ v.ok
        THEN [ok |-> TRUE,
              store |-> (k.b :> (IF k.b \in DOMAIN st THEN st[k.b] \o v.b
                                 ELSE v.b)) @@ st]
        ELSE [ok |-> FALSE, store |-> st]

\* RedisSet on a store flushed first: the other entries are lost.
RedisSetAlone(st, key, value) ==
    LET k == Encode(key)
        v == Encode(value)
    IN  IF k.ok /\ v.ok
        THEN [ok |-> TRUE, store |-> (k.b :> v.b)]
        ELSE [ok |-> FALSE, store |-> st]

\* RedisSet as SET ... NX: a key that is already there keeps its value.
RedisSetNX(st, key, value) ==
    LET k == Encode(key)
        v == Encode(value)
    IN  IF k.ok /\ v.ok
        THEN [ok |-> TRUE, store |-> st @@ (k.b :> v.b)]
        ELSE [ok |-> FALSE, store |-> st]

\* r.set(key, value): the store after it, or ok = FALSE where it raises
RedisSet(st, key, value) ==
    LET k == Encode(key)
        v == Encode(value)
    IN  IF k.ok /\ v.ok
        THEN [ok |-> TRUE, store |-> (k.b :> v.b) @@ st]
        ELSE [ok |-> FALSE, store |-> st]

\* r.get(key) under decode_responses=True: None, the text stored, or the
\* marker "raise" where the bytes stored do not decode.
RedisGet(st, key) ==
    LET k == Utf8Encode(key)
    IN  IF k \notin DOMAIN st THEN PyNone
        ELSE LET d == Utf8Decode(st[k])
             IN  IF d.ok THEN PyStr(d.s) ELSE Val("raise", <<>>, 0)

SetCall(key, value) == [fn |-> "set", key |-> key, value |-> value]

GetCall(key) == [fn |-> "get", key |-> PyStr(key), value |-> Absent]

-----------------------------------------------------------------------------
(* The handlers.                                                           *)

\* not v
Falsy(v) ==
    \/ v.t = "none"
    \/ v.t = "str" /\ v.s = <<>>
    \/ v.t \in {"int", "bool"} /\ v.n = 0

\* request.json.get(name): None for a field the object does not carry
DictGet(field) == IF field = Absent THEN PyNone ELSE field

\* Rejected with "and" for "or": not key and not value
RejectedBoth(key, value) == Falsy(key) /\ Falsy(value)

\* not key or not value
Rejected(key, value) == Falsy(key) \/ Falsy(value)

\* FormatMessage with the two fields exchanged
FormatMessageSwapped(key, value) ==
    <<83, 101, 116, 32>> \o Str(value) \o <<32, 61, 32>> \o Str(key)

\* f"Set {key} = {value}"
FormatMessage(key, value) ==
    <<83, 101, 116, 32>> \o Str(key) \o <<32, 61, 32>> \o Str(value)

Outcome(r, c, st) == [resp |-> r, calls |-> c, store |-> st]

set_value(st, body, keyField, valueField) ==
    IF body = "invalid" THEN Outcome(BadRequest, <<>>, st)
    ELSE IF body # "object" THEN Outcome(InternalServerError, <<>>, st)
    ELSE
      LET key == DictGet(keyField)
          value == DictGet(valueField)
      IN  IF Rejected(key, value)
          THEN Outcome(Jsonify(ErrorName, RequiredText, 400), <<>>, st)
          ELSE
            LET w == RedisSet(st, key, value)
            IN  IF ~w.ok
                THEN Outcome(InternalServerError, <<SetCall(key, value)>>, st)
                ELSE Outcome(Jsonify(MessageName, FormatMessage(key, value), 200),
                             <<SetCall(key, value)>>, w.store)

\* IsNone as a truth test: not value
IsFalsyValue(value) == Falsy(value)

\* value is None
IsNone(value) == value.t = "none"

get_value(st, key) ==
    LET value == RedisGet(st, key)
    IN  IF value.t = "raise"
        THEN Outcome(InternalServerError, <<GetCall(key)>>, st)
        ELSE IF IsNone(value)
        THEN Outcome(Jsonify(ErrorName, NotFoundText, 404), <<GetCall(key)>>, st)
        ELSE Outcome(Jsonify(key, value.s, 200), <<GetCall(key)>>, st)

\* set_value when r.set raises (the connection fails, times out, or the
\* reply is no valid reply): nothing catches it, so it leaves the handler.
\* The store may have applied the command before the failure (landed).
set_value_raises(st, key, value, landed) ==
    Outcome(InternalServerError, <<SetCall(key, value)>>,
            IF landed THEN RedisSet(st, key, value).store ELSE st)

\* get_value_raises with the failure caught and taken for an absent key
get_value_caught(st, key) ==
    Outcome(Jsonify(ErrorName, NotFoundText, 404), <<GetCall(key)>>, st)

\* get_value when r.get raises: nothing catches it either.
get_value_raises(st, key) ==
    Outcome(InternalServerError, <<GetCall(key)>>, st)

\* The rule /get/<key>: the default converter takes one non-empty path
\* segment.
RouteMatches(path) == path # <<>> /\ \A i \in 1..Len(path) : path[i] # 47

-----------------------------------------------------------------------------
(* The state machine.                                                      *)

\* The workers of the HTTP server, and a worker that serves nothing yet: pc
\* is the line of set_value it has reached, order the rank of its r.set
\* among those the store has applied.
Threads == 1..MaxThreads

Worker(pc, key, value, response, order) ==
    [pc |-> pc, key |-> key, value |-> value, resp |-> response,
     order |-> order]

Idle == Worker("idle", Absent, Absent, NoResponse, 0)

Init ==
    /\ store = <<>>
    /\ req = NoRequest
    /\ resp = NoResponse
    /\ calls = <<>>
    /\ prior = PyNone
    /\ inflight = [t \in Threads |-> Idle]
    /\ fault = "none"

\* GET /
Index ==
    /\ req' = Request("index", "none", Absent, Absent, <<>>)
    /\ resp' = Response(200, "text", <<>>, Greeting)
    /\ calls' = <<>>
    /\ prior' = PyNone
    /\ fault' = "none"
    /\ UNCHANGED <<store, inflight>>

\* POST /set.  prior is the value that the request just before this one set
\* for the same key, when both were acknowledged.
SetValue(body, keyField, valueField) ==
    LET out == set_value(store, body, keyField, valueField)
    IN  /\ Cardinality(DOMAIN out.store) <= MaxKeys
        /\ req' = Request("set", body, keyField, valueField, <<>>)
        /\ resp' = out.resp
        /\ calls' = out.calls
        /\ store' = out.store
        /\ prior' = IF /\ out.resp.status = 200
                       /\ req.op = "set"
                       /\ resp.status = 200
                       /\ req.key = keyField
                    THEN req.value
                    ELSE PyNone
        /\ fault' = "none"
        /\ UNCHANGED inflight

\* GET /get/<path>
GetValue(path) ==
    LET out == IF RouteMatches(path) THEN get_value(store, path)
               ELSE Outcome(RouteNotFound, <<>>, store)
    IN  /\ req' = Request("get", "none", Absent, Absent, path)
        /\ resp' = out.resp
        /\ calls' = out.calls
        /\ store' = out.store
        /\ prior' = PyNone
        /\ fault' = "none"
        /\ UNCHANGED inflight

Next ==
    \/ Index
    \/ \E keyField \in KeyFields, valueField \in ValueFields :
           SetValue("object", keyField, valueField)
    \/ \E body \in BodyKinds \ {"object"} : SetValue(body, Absent, Absent)
    \/ \E path \in GetPaths : GetValue(path)

Spec == Init /\ [][Next]_vars

-----------------------------------------------------------------------------
(* Other clients of the same store, as the tests' redis_client fixture:    *)
(* they set text values, the empty text among them, and delete keys.       *)

ExternalKeys == KeyTexts \ {<<>>}

ExternalValues == {<<>>, <<98>>}

ExternalRequest == Request("external", "none", Absent, Absent, <<>>)

ExternalSet(key, value) ==
    LET w == RedisSet(store, PyStr(key), PyStr(value))
    IN  /\ Cardinality(DOMAIN w.store) <= MaxKeys
        /\ store' = w.store
        /\ req' = ExternalRequest
        /\ resp' = NoResponse
        /\ calls' = <<>>
        /\ prior' = PyNone
        /\ fault' = "none"
        /\ UNCHANGED inflight

ExternalDelete(key) ==
    /\ Utf8Encode(key) \in DOMAIN store
    /\ store' = [k \in DOMAIN store \ {Utf8Encode(key)} |-> store[k]]
    /\ req' = ExternalRequest
    /\ resp' = NoResponse
    /\ calls' = <<>>
    /\ prior' = PyNone
    /\ fault' = "none"
    /\ UNCHANGED inflight

NextExt ==
    \/ Next
    \/ \E key \in ExternalKeys, value \in ExternalValues : ExternalSet(key, value)
    \/ \E key \in ExternalKeys : ExternalDelete(key)

SpecExt == Init /\ [][NextExt]_vars

-----------------------------------------------------------------------------
(* The store failing under a request: r.set or r.get raises                *)
(* ConnectionError, TimeoutError or a protocol error.  fault is the        *)
(* failure that the last request met, "none" when it met none.             *)

Faults == {"connection", "timeout", "protocol"}

\* POST /set that reaches r.set (the fields pass line 33 and encode), which
\* raises.
SetValueFails(keyField, valueField) ==
    LET key == DictGet(keyField)
        value == DictGet(valueField)
    IN  /\ ~Rejected(key, value)
        /\ RedisSet(store, key, value).ok
        /\ \E f \in Faults, landed \in BOOLEAN :
             LET out == set_value_raises(store, key, value, landed)
             IN  /\ Cardinality(DOMAIN out.store) <= MaxKeys
                 /\ resp' = out.resp
                 /\ calls' = out.calls
                 /\ store' = out.store
                 /\ fault' = f
        /\ req' = Request("set", "object", keyField, valueField, <<>>)
        /\ prior' = PyNone
        /\ UNCHANGED inflight

\* GET /get/<path> that reaches r.get, which raises.
GetValueFails(path, f) ==
    LET out == get_value_raises(store, path)
    IN  /\ RouteMatches(path)
        /\ req' = Request("get", "none", Absent, Absent, path)
        /\ resp' = out.resp
        /\ calls' = out.calls
        /\ store' = out.store
        /\ prior' = PyNone
        /\ fault' = f
        /\ UNCHANGED inflight

NextFail ==
    \/ Next
    \/ \E keyField \in KeyFields, valueField \in ValueFields :
           SetValueFails(keyField, valueField)
    \/ \E path \in GetPaths, f \in Faults : GetValueFails(path, f)

SpecFail == Init /\ [][NextFail]_vars

-----------------------------------------------------------------------------
(* POST /set served by several workers at once over the one client r.  A   *)
(* worker reads and checks its request (lines 31-34), has the store apply  *)
(* its r.set (line 35; the store applies one command at a time) and        *)
(* returns (line 36).  calls lists the r.set calls in the order the store  *)
(* applied them.                                                           *)

ConcurrentKeys == {PyStr(<<97>>), PyStr(<<233>>)}

ConcurrentValues == {PyStr(<<>>), PyStr(<<98>>), PyStr(<<233>>)}

\* Lines 31-34: the fields are read; a rejected request is answered at once.
Receive(t, keyField, valueField) ==
    LET key == DictGet(keyField)
        value == DictGet(valueField)
    IN  /\ inflight[t].pc = "idle"
        /\ inflight' =
              [inflight EXCEPT ![t] =
                 IF Rejected(key, value)
                 THEN Worker("done", key, value,
                             Jsonify(ErrorName, RequiredText, 400), 0)
                 ELSE Worker("validated", key, value, NoResponse, 0)]
        /\ UNCHANGED <<store, req, resp, calls, prior, fault>>

\* Line 35: the store applies the worker's r.set.
StoreWrite(t) ==
    LET w == RedisSet(store, inflight[t].key, inflight[t].value)
    IN  /\ inflight[t].pc = "validated"
        /\ store' = w.store
        /\ calls' = Append(calls, SetCall(inflight[t].key, inflight[t].value))
        /\ inflight' =
              [inflight EXCEPT ![t].pc = IF w.ok THEN "written" ELSE "raised",
                               ![t].order = Len(calls) + 1]
        /\ UNCHANGED <<req, resp, prior, fault>>

\* Line 36, or the exception of r.set leaving the handler.
Respond(t) ==
    /\ inflight[t].pc \in {"written", "raised"}
    /\ inflight' =
          [inflight EXCEPT ![t].pc = "done",
                           ![t].resp =
                             IF inflight[t].pc = "written"
                             THEN Jsonify(MessageName,
                                          FormatMessage(inflight[t].key,
                                                        inflight[t].value), 200)
                             ELSE InternalServerError]
    /\ UNCHANGED <<store, req, resp, calls, prior, fault>>

NextConc ==
    \/ \E t \in Threads, keyField \in ConcurrentKeys,
           valueField \in ConcurrentValues : Receive(t, keyField, valueField)
    \/ \E t \in Threads : StoreWrite(t)
    \/ \E t \in Threads : Respond(t)

SpecConc == Init /\ [][NextConc]_vars

-----------------------------------------------------------------------------
(* Properties.                                                             *)

NonEmptyKeys == KeyTexts \ {<<>>}

NonEmptyValues == ValueTexts \ {<<>>}

\* A field that is absent, null, the empty text, 0 or false
MissingOrFalsy(f) ==
    f \in {Absent, PyNone, PyStr(<<>>), PyInt(0), PyBool(FALSE)}

\* C1: a POST /set whose JSON object lacks key or value, or carries an empty
\* or otherwise falsy one, is answered 400 with the fixed error body, makes
\* no call of the store and leaves the store as it was.
C1_RejectedLeavesStore ==
    [][(/\ req'.op = "set"
        /\ req'.body = "object"
        /\ (MissingOrFalsy(req'.key) \/ MissingOrFalsy(req'.value)))
       => (/\ resp' = Response(400, "json", ErrorName, RequiredText)
           /\ calls' = <<>>
           /\ store' = store)]_vars

\* C1 witness: a request without key was rejected over a store that held an
\* entry.
C1_Witness ==
    /\ req.op = "set"
    /\ req.body = "object"
    /\ req.key = Absent
    /\ resp.status = 400
    /\ calls = <<>>
    /\ store # <<>>

\* C2: after an acknowledged Set of a non-empty text key and a non-empty
\* text value, the Get of that key that comes next answers 200 with
\* {key: value}; the keys include one with "/" and one that is not ASCII.
C2_SetThenGet ==
    [][\A k \in NonEmptyKeys, v \in NonEmptyValues :
         (/\ req.op = "set"
          /\ req.body = "object"
          /\ req.key = PyStr(k)
          /\ req.value = PyStr(v)
          /\ resp.status = 200
          /\ req'.op = "get"
          /\ req'.path = k)
         => resp' = Response(200, "json", k, v)]_vars

\* C3: a Get that reaches its handler asks the store once, for its key; it
\* answers 404 with the fixed error body exactly when the store holds no
\* entry for the key, and otherwise 200 with {key: the value stored}, the
\* empty text included.
C3_GetByAbsence ==
    (req.op = "get" /\ RouteMatches(req.path))
    => /\ calls = <<[fn |-> "get", key |-> PyStr(req.path), value |-> Absent]>>
       /\ IF Utf8Encode(req.path) \in DOMAIN store
          THEN resp = Response(200, "json", req.path,
                               Utf8Decode(store[Utf8Encode(req.path)]).s)
          ELSE resp = Response(404, "json", ErrorName, NotFoundText)

\* C3 witness: a Get answered 200 with the empty text that another client
\* stored.
C3_Witness ==
    /\ req.op = "get"
    /\ Len(calls) = 1
    /\ Utf8Encode(req.path) \in DOMAIN store
    /\ store[Utf8Encode(req.path)] = <<>>
    /\ resp.status = 200
    /\ resp.val = <<>>

\* C4: a POST /set with non-empty text key and value calls the store's set
\* once, with that key and that value, calls nothing else, and answers 200
\* with {"message": "Set <key> = <value>"}.
C4_SetForwardsOnce ==
    \A k \in NonEmptyKeys, v \in NonEmptyValues :
      (/\ req.op = "set"
       /\ req.body = "object"
       /\ req.key = PyStr(k)
       /\ req.value = PyStr(v))
      => /\ calls = <<[fn |-> "set", key |-> PyStr(k), value |-> PyStr(v)]>>
         /\ resp = Response(200, "json", MessageName,
                            <<83, 101, 116, 32>> \o k \o <<32, 61, 32>> \o v)

\* C4 witness: Set("é", "b") was acknowledged.
C4_Witness ==
    /\ req.op = "set"
    /\ req.key = PyStr(<<233>>)
    /\ req.value = PyStr(<<98>>)
    /\ Len(calls) = 1
    /\ resp.status = 200

\* C5: after Set(k, a) and then Set(k, b), both acknowledged, the store
\* holds b for k and the Get of k that comes next answers 200 with {k: b}.
C5_LastWriteWins ==
    [][\A k \in NonEmptyKeys, b \in NonEmptyValues :
         (/\ req.op = "set"
          /\ req.body = "object"
          /\ req.key = PyStr(k)
          /\ req.value = PyStr(b)
          /\ resp.status = 200
          /\ prior.t = "str"
          /\ req'.op = "get"
          /\ req'.path = k)
         => /\ Utf8Encode(k) \in DOMAIN store
            /\ store[Utf8Encode(k)] = Utf8Encode(b)
            /\ resp' = Response(200, "json", k, b)]_vars

\* C6: a Set of a non-empty text key and value that repeats the request
\* just before it leaves the store as the first left it, and both are
\* answered 200 with the same message.
C6_SetIdempotent ==
    [][\A k \in NonEmptyKeys, v \in NonEmptyValues :
         (/\ req.op = "set"
          /\ req.body = "object"
          /\ req.key = PyStr(k)
          /\ req.value = PyStr(v)
          /\ req' = req)
         => /\ resp.status = 200
            /\ resp.name = MessageName
            /\ resp' = resp
            /\ store' = store]_vars

\* C6 witness: the request before this acknowledged Set set the same key to
\* the same text value.
C6_Witness ==
    /\ req.op = "set"
    /\ req.key.t = "str"
    /\ req.value.t = "str"
    /\ resp.status = 200
    /\ prior = req.value

\* C7: a POST /set whose body is not JSON, or is JSON that is an array, a
\* string or null, is answered 400 and makes no call of the store.
C7_MalformedIs400 ==
    (req.op = "set" /\ req.body \in {"invalid", "array", "string", "null"})
    => (resp.status = 400 /\ calls = <<>>)

\* C8: with no other client writing, every entry of the store has a
\* non-empty key and a non-empty value, and Set writes only when both fields
\* of the request are non-empty text.
C8_OnlyTextIsWritten ==
    /\ \A k \in DOMAIN store : k # <<>> /\ store[k] # <<>>
    /\ (req.op = "set" /\ calls # <<>> /\ resp.status = 200)
       => /\ req.key.t = "str" /\ req.key.s # <<>>
          /\ req.value.t = "str" /\ req.value.s # <<>>

\* C9: every response of Set or Get is a success envelope with status 200
\* ({"message": ...} from Set, {key: value} from Get) or an error envelope
\* ({"error": ...}) with status 400 from Set or 404 from Get, and nothing
\* else.
C9_EnvelopeMatchesStatus ==
    /\ req.op = "set"
       => \/ resp.status = 200 /\ resp.ctype = "json" /\ resp.name = MessageName
          \/ resp.status = 400 /\ resp.ctype = "json" /\ resp.name = ErrorName
    /\ (req.op = "get" /\ RouteMatches(req.path))
       => \/ resp.status = 200 /\ resp.ctype = "json" /\ resp.name = req.path
          \/ resp.status = 404 /\ resp.ctype = "json" /\ resp.name = ErrorName

\* C10: Index answers 200 with the greeting and leaves the store alone; Get
\* leaves the store alone, and a Get that repeats the request just before it
\* gets the same response; an acknowledged Set changes no entry but that of
\* its key.
C10_Frame ==
    [][/\ req'.op = "index"
          => /\ resp' = Response(200, "text", <<>>, Greeting)
             /\ calls' = <<>>
             /\ store' = store
       /\ req'.op = "get"
          => /\ store' = store
             /\ (req' = req => resp' = resp)
       /\ (req'.op = "set" /\ resp'.status = 200)
          => \A k \in (DOMAIN store \cup DOMAIN store')
                        \ {Utf8Encode(Str(req'.key))} :
                /\ k \in DOMAIN store
                /\ k \in DOMAIN store'
                /\ store'[k] = store[k]]_vars

\* C10 witness: a Set was acknowledged and the store holds an entry of
\* another key beside the one it set.
C10_Witness ==
    /\ req.op = "set"
    /\ resp.status = 200
    /\ Utf8Encode(Str(req.key)) \in DOMAIN store
    /\ Cardinality(DOMAIN store) = 2

\* The workers whose r.set for key k the store has applied
Writers(k) ==
    {t \in Threads : inflight[t].order > 0 /\ inflight[t].key = PyStr(k)}

\* C11: of Set requests served at the same time, each one with non-empty
\* text fields has the store apply exactly one r.set, in one step, and is
\* answered 200; once all are done the store holds, for each key, exactly
\* the value of the request whose r.set the store applied last (and no
\* entry for a key none wrote), whatever was written to other keys.
C11_LastAppliedWriteWins ==
    /\ Len(calls) = Cardinality({t \in Threads : inflight[t].order > 0})
    /\ \A t \in Threads :
         /\ inflight[t].order > 0
            => calls[inflight[t].order]
                 = [fn |-> "set", key |-> inflight[t].key,
                    value |-> inflight[t].value]
         /\ (/\ inflight[t].pc = "done"
             /\ inflight[t].key.s # <<>>
             /\ inflight[t].value.s # <<>>)
            => /\ inflight[t].order > 0
               /\ inflight[t].resp.status = 200
               /\ inflight[t].resp.name = MessageName
    /\ (\A t \in Threads : inflight[t].pc = "done")
       => \A k \in {<<97>>, <<233>>} :
            IF Writers(k) = {}
            THEN Utf8Encode(k) \notin DOMAIN store
            ELSE LET last == CHOOSE t \in Writers(k) :
                               \A u \in Writers(k) :
                                 inflight[u].order <= inflight[t].order
                 IN  /\ Utf8Encode(k) \in DOMAIN store
                     /\ store[Utf8Encode(k)] = Utf8Encode(inflight[last].value.s)

\* C11 witness: both workers set "a", to different values, and are done;
\* the store applied worker 1's r.set after worker 2's and holds worker 1's
\* value.
C11_Witness ==
    /\ \A t \in Threads : inflight[t].pc = "done"
    /\ inflight[1].key = PyStr(<<97>>)
    /\ inflight[2].key = PyStr(<<97>>)
    /\ inflight[1].value = PyStr(<<233>>)
    /\ inflight[2].value = PyStr(<<98>>)
    /\ inflight[2].order = 1
    /\ inflight[1].order = 2
    /\ inflight[1].resp.status = 200
    /\ inflight[2].resp.status = 200
    /\ store[<<97>>] = <<195, 169>>

\* C12: a request under which r.set or r.get fails makes that one call of
\* the store and no other (no retry), and ends as an unhandled error: status
\* 500 with no JSON envelope, so neither a 200 success nor a 400 or 404
\* error envelope.
C12_StoreFailureUnhandled ==
    fault # "none"
    => /\ Len(calls) = 1
       /\ calls[1].fn = req.op
       /\ calls[1].key = (IF req.op = "set" THEN DictGet(req.key)
                          ELSE PyStr(req.path))
       /\ resp.status = 500
       /\ resp.status \notin {200, 400, 404}
       /\ resp.ctype # "json"

\* C12 witness: r.get timed out under a Get of a key that the store holds.
C12_Witness ==
    /\ fault = "timeout"
    /\ req.op = "get"
    /\ Utf8Encode(req.path) \in DOMAIN store
    /\ Len(calls) = 1
    /\ resp.status = 500

====
